---------------------------- MODULE Spec2Model ----------------------------
(***************************************************************************)
(* A model of rymcheck (src/rymcheck.go): the paginated catalog fetch      *)
(* (Client.GetAllAlbums), the text normalizer (normalize), the similarity  *)
(* scorer (similarity), the reconciliation loop of renderForm over the     *)
(* package-level albumList, the request handler (ServeRymCSVForm) and the  *)
(* start-up sequence of main.                                              *)
(*                                                                         *)
(* Strings are sequences of Unicode code points (naturals).  A float64     *)
(* returned by similarity is the exact rational [num, den] it rounds.      *)
(***************************************************************************)
EXTENDS Integers, Sequences, FiniteSets, TLC

VARIABLES
    pc,          \* position of the program (or of the pure-function harness)
    client,      \* the Client value GetAllAlbums is called on
    server,      \* the remote catalog: the records the Jellyfin server holds
    startIndex,  \* GetAllAlbums: local startIndex
    all,         \* GetAllAlbums: local all
    reqLog,      \* the page requests issued so far, with the answer to each
    fetchRet,    \* what GetAllAlbums returned: [albums, err]
    albumList,   \* the package-level variable albumList
    fetched,     \* the value albumList had when main started serving
    resp,        \* the last HTTP response written by the handler
    last,        \* the last request handled: its method, reference list, albumList before it
    arg,         \* pure-function harness: the arguments
    ret,         \* pure-function harness: the result
    conc         \* the handler goroutines that run at the same time: their locals

vars == <<pc, client, server, startIndex, all, reqLog, fetchRet, albumList,
          fetched, resp, last, arg, ret, conc>>

progVars == <<client, server, startIndex, all, reqLog, fetchRet, albumList,
              fetched, resp, last, conc>>

(***************************************************************************)
(* Bounds of the model.                                                    *)
(***************************************************************************)
MaxNormLen == 3     \* longest input string of the normalize harness
MaxSimLen == 3      \* longest input string of the similarity harness

Min(a, b) == IF a < b THEN a ELSE b
Max(a, b) == IF a > b THEN a ELSE b

RECURSIVE StringsUpTo(_, _)
StringsUpTo(alphabet, n) ==
    IF n = 0 THEN {<<>>}
    ELSE LET shorter == StringsUpTo(alphabet, n - 1)
         IN  shorter \cup {Append(s, c) : s \in shorter, c \in alphabet}

(***************************************************************************)
(* Unicode tables, restricted to the code points the model uses: Basic     *)
(* Latin, Latin-1 Supplement, eight combining marks and U+03D2.            *)
(***************************************************************************)
\* The combining marks (general category Mn) of the model:
\* U+0300 grave, U+0301 acute, U+0302 circumflex, U+0303 tilde,
\* U+0308 diaeresis, U+030A ring above, U+0323 dot below, U+0327 cedilla.
MarkRunes == {768, 769, 770, 771, 776, 778, 803, 807}

\* U+03D2 GREEK UPSILON WITH HOOK SYMBOL: category Lu, no lower-case mapping.
UpperOnlyRunes == {978}

Runes == (0..255) \cup MarkRunes \cup UpperOnlyRunes

\* unicode.Is(unicode.Mn, r)
IsMn(r) == r \in MarkRunes

\* unicode.IsLetter(r)
IsLetter(r) ==
    \/ r \in 65..90
    \/ r \in 97..122
    \/ r \in {170, 181, 186}
    \/ r \in 192..214
    \/ r \in 216..246
    \/ r \in 248..255
    \/ r \in UpperOnlyRunes

\* unicode.IsNumber(r): Nd, and the No characters of Latin-1
IsNumber(r) == r \in 48..57 \/ r \in {178, 179, 185, 188, 189, 190}

\* unicode.IsSpace(r): '\t' '\n' '\v' '\f' '\r' ' ' U+0085 U+00A0
IsSpace(r) == r \in 9..13 \/ r \in {32, 133, 160}

\* unicode.IsUpper(r)
IsUpper(r) == r \in 65..90 \/ r \in 192..214 \/ r \in 216..222 \/ r \in UpperOnlyRunes

\* unicode.ToLower(r)
ToLowerRune(r) ==
    IF r \in 65..90 \/ r \in 192..214 \/ r \in 216..222 THEN r + 32 ELSE r

\* strings.ToLower(s)
ToLower(s) == [i \in 1..Len(s) |-> ToLowerRune(s[i])]

\* Canonical combining class of a code point.
CCC(r) ==
    IF r = 807 THEN 202
    ELSE IF r = 803 THEN 220
    ELSE IF r \in MarkRunes THEN 230
    ELSE 0

\* Canonical decomposition of the precomposed lower-case letters of Latin-1.
LowerDecomposition ==
    (224 :> <<97, 768>>)  @@ (225 :> <<97, 769>>)  @@ (226 :> <<97, 770>>)  @@
    (227 :> <<97, 771>>)  @@ (228 :> <<97, 776>>)  @@ (229 :> <<97, 778>>)  @@
    (231 :> <<99, 807>>)  @@ (232 :> <<101, 768>>) @@ (233 :> <<101, 769>>) @@
    (234 :> <<101, 770>>) @@ (235 :> <<101, 776>>) @@ (236 :> <<105, 768>>) @@
    (237 :> <<105, 769>>) @@ (238 :> <<105, 770>>) @@ (239 :> <<105, 776>>) @@
    (241 :> <<110, 771>>) @@ (242 :> <<111, 768>>) @@ (243 :> <<111, 769>>) @@
    (244 :> <<111, 770>>) @@ (245 :> <<111, 771>>) @@ (246 :> <<111, 776>>) @@
    (249 :> <<117, 768>>) @@ (250 :> <<117, 769>>) @@ (251 :> <<117, 770>>) @@
    (252 :> <<117, 776>>) @@ (253 :> <<121, 769>>) @@ (255 :> <<121, 776>>)

\* Canonical decomposition of one code point (the upper-case letters of
\* Latin-1 decompose like their lower-case forms, on the upper-case base).
Decompose(r) ==
    IF r \in DOMAIN LowerDecomposition THEN LowerDecomposition[r]
    ELSE IF r \in 192..221 /\ (r + 32) \in DOMAIN LowerDecomposition
         THEN <<LowerDecomposition[r + 32][1] - 32, LowerDecomposition[r + 32][2]>>
    ELSE <<r>>

RECURSIVE DecomposeAll(_)
DecomposeAll(s) ==
    IF s = <<>> THEN <<>> ELSE Decompose(Head(s)) \o DecomposeAll(Tail(s))

\* Canonical ordering: while some mark follows a mark of a higher combining
\* class, exchange the two.
RECURSIVE CanonicalOrder(_)
CanonicalOrder(s) ==
    LET bad == {i \in 1..(Len(s) - 1) : CCC(s[i + 1]) > 0 /\ CCC(s[i]) > CCC(s[i + 1])}
    IN  IF bad = {} THEN s
        ELSE LET i == CHOOSE k \in bad : \A m \in bad : k <= m
             IN  CanonicalOrder([s EXCEPT ![i] = s[i + 1], ![i + 1] = s[i]])

\* norm.NFD.String(s)
NFD(s) == CanonicalOrder(DecomposeAll(s))

\* strings.Fields(s): the maximal runs of non-space code points of s
RECURSIVE FieldsFrom(_, _, _)
FieldsFrom(s, word, out) ==
    IF s = <<>> THEN (IF word = <<>> THEN out ELSE Append(out, word))
    ELSE IF IsSpace(Head(s))
         THEN FieldsFrom(Tail(s), <<>>, IF word = <<>> THEN out ELSE Append(out, word))
         ELSE FieldsFrom(Tail(s), Append(word, Head(s)), out)

Fields(s) == FieldsFrom(s, <<>>, <<>>)

\* strings.Join(elems, sep)
RECURSIVE Join(_, _)
Join(elems, sep) ==
    IF elems = <<>> THEN <<>>
    ELSE IF Len(elems) = 1 THEN elems[1]
    ELSE elems[1] \o sep \o Join(Tail(elems), sep)

\* The loop body of normalize: a code point is written to the builder unless
\* it is a combining mark, and only if it is a letter, a number or a space.
Kept(r) == ~IsMn(r) /\ (IsLetter(r) \/ IsNumber(r) \/ IsSpace(r))

\* A normalize that collapses the white space before it drops the
\* punctuation.
normalizeCollapseFirst(s) ==
    SelectSeq(Join(Fields(NFD(ToLower(s))), <<32>>), Kept)

\* A normalize that forgets to lower the case.
normalizeKeepCase(s) ==
    Join(Fields(SelectSeq(NFD(s), Kept)), <<32>>)

normalize(s) ==
    LET t == NFD(ToLower(s))
        b == SelectSeq(t, Kept)
    IN  Join(Fields(b), <<32>>)

(***************************************************************************)
(* levenshtein.DistanceForStrings with levenshtein.DefaultOptions          *)
(* (github.com/texttheater/golang-levenshtein): insertion 1, deletion 1,   *)
(* substitution 2, two runes match iff they are the same.                  *)
(***************************************************************************)
DefaultOptions == [InsCost |-> 1, DelCost |-> 1, SubCost |-> 2]

\* One row of the edit matrix from the row before it; a row is the sequence
\* of its cells 0..Len(target), cell j at index j + 1.
RECURSIVE FillRow(_, _, _, _, _, _)
FillRow(cur, prev, i, source, target, op) ==
    LET j == Len(cur)
    IN  IF j > Len(target) THEN cur
        ELSE LET delCost == prev[j + 1] + op.DelCost
                 matchSubCost == prev[j] +
                     (IF source[i] = target[j] THEN 0 ELSE op.SubCost)
                 insCost == cur[j] + op.InsCost
             IN  FillRow(Append(cur, Min(delCost, Min(matchSubCost, insCost))),
                         prev, i, source, target, op)

RECURSIVE FillMatrix(_, _, _, _, _)
FillMatrix(prev, i, source, target, op) ==
    IF i > Len(source) THEN prev
    ELSE LET cur == FillRow(<<i * op.DelCost>>, prev, i, source, target, op)
         IN  \* the test has row i computed before row i + 1 is begun
             IF Len(cur) # Len(prev) THEN cur
             ELSE FillMatrix(cur, i + 1, source, target, op)

DistanceForStrings(source, target, op) ==
    LET row0 == [j \in 1..(Len(target) + 1) |-> (j - 1) * op.InsCost]
    IN  FillMatrix(row0, 1, source, target, op)[Len(target) + 1]

(***************************************************************************)
(* similarity.  The float64 results 0, 1 and 1 - d/maxLen are kept as      *)
(* exact fractions; FloatEq and the comparisons cross-multiply.            *)
(***************************************************************************)
Float(n, d) == [num |-> n, den |-> d]

FloatEq(x, y) == x.num * y.den = y.num * x.den
FloatLeq(x, y) == x.num * y.den <= y.num * x.den
FloatGt(x, y) == x.num * y.den > y.num * x.den

\* The literal 0.75 of renderForm.
Threshold == Float(3, 4)

\* A similarity that leaves out the empty-string test.
similarityRunNoEmptyTest(a, b) ==
    LET d == DistanceForStrings(a, b, DefaultOptions)
        maxLen == IF Len(b) > Len(a) THEN Len(b) ELSE Len(a)
    IN  IF maxLen = 0 THEN [result |-> Float(1, 1), branch |-> "maxLen == 0"]
        ELSE [result |-> Float(maxLen - d, maxLen), branch |-> "ratio"]

\* One call of similarity: the float64 it returns and the return statement
\* that produced it.
similarityRun(a, b) ==
    IF a = <<>> \/ b = <<>> THEN [result |-> Float(0, 1), branch |-> "empty"]
    ELSE LET d == DistanceForStrings(a, b, DefaultOptions)
             maxLen == IF Len(b) > Len(a) THEN Len(b) ELSE Len(a)
         IN  IF maxLen = 0 THEN [result |-> Float(1, 1), branch |-> "maxLen == 0"]
             ELSE [result |-> Float(maxLen - d, maxLen), branch |-> "ratio"]

similarity(a, b) == similarityRun(a, b).result

(***************************************************************************)
(* Records.  An Album carries the seven fields of the Go struct; nil and   *)
(* empty slices are both the empty sequence.                               *)
(***************************************************************************)
Album(rymID, id, name, artist, year) ==
    [RYMAlbumID |-> rymID, ID |-> id, Name |-> name, AlbumArtist |-> artist,
     ProductionYear |-> year, Overview |-> <<>>, PrimaryImageTag |-> <<>>]

\* A record of the Jellyfin server: no rym_album_id in its JSON.
JfAlbum(id, name, artist, year) == Album(<<>>, id, name, artist, year)

\* const pageSize = 200
pageSize == 200

\* Errors are records; the nil error is one too.
NoError == [kind |-> "nil"]
Error(kind) == [kind |-> kind]

\* The empty errMsg of renderForm, and the message of a parse error.
NoMessage == [prefix |-> "", err |-> NoError]
ParseErrorMessage(err) == [prefix |-> "Parse error: ", err |-> err]

(***************************************************************************)
(* Client.GetAllAlbums.                                                    *)
(***************************************************************************)
\* url.Parse(c.BaseURL) fails on an invalid percent-escape.
BadBaseURL == "http://%zz"
UrlParseOK(u) == u # BadBaseURL

\* The stop test a loop written with > in place of >= would make.
StopFetchStrict(index, ir) ==
    index > ir.TotalRecordCount \/ Len(ir.Items) = 0

\* A stop test that does not look at the length of the page.
StopFetchOnTotalOnly(index, ir) ==
    index >= ir.TotalRecordCount

\* if startIndex >= ir.TotalRecordCount || len(ir.Items) == 0 { break }
StopFetch(index, ir) ==
    index >= ir.TotalRecordCount \/ Len(ir.Items) = 0

\* An offset that advances by the nominal page size.
AdvanceByPageSize(index, ir) == index + pageSize

\* startIndex += len(ir.Items)
Advance(index, ir) == index + Len(ir.Items)

\* A failure path that hands back what was accumulated.
ReturnPartial(sofar, err) == [albums |-> sofar, err |-> err]

\* return nil, err
ReturnError(sofar, err) == [albums |-> <<>>, err |-> err]

\* The query of one page request: StartIndex and Limit.
PageQuery(index) == [StartIndex |-> index, Limit |-> pageSize]

\* What the server may answer to a page request: a transport error (the
\* caller's context being cancelled in flight is one), a status other than
\* 200, a body that does not decode, or a page: up to n records of its
\* catalog from the requested offset, and a total count of its choosing.
PageLens == {0, 1, 2, 50, 200, 201}
ReportedTotals(catalog) == {0, 2, Len(catalog), 1000}
FailureKinds == {"transport", "status", "decode"}

ServerPage(catalog, query, n, total) ==
    [Items |-> SubSeq(catalog, query.StartIndex + 1,
                      Min(query.StartIndex + n, Len(catalog))),
     TotalRecordCount |-> total]

MaxRequests == 3    \* page requests of one fetch the model follows

\* Lines 86-93: the locals, and the parse of the base URL.
GetAllAlbumsBegin ==
    /\ pc = "fetch_start"
    /\ startIndex' = 0
    /\ all' = <<>>
    /\ reqLog' = <<>>
    /\ IF UrlParseOK(client.BaseURL)
       THEN /\ pc' = "fetch_loop"
            /\ fetchRet' = fetchRet
       ELSE /\ pc' = "returned"
            /\ fetchRet' = ReturnError(<<>>, Error("parse base url"))
    /\ UNCHANGED <<client, server, albumList, fetched, resp, last, arg, ret, conc>>

\* Lines 95-126: one iteration of the loop whose request fails.
PageFails ==
    /\ pc = "fetch_loop"
    /\ Len(reqLog) < MaxRequests
    /\ \E kind \in FailureKinds :
          /\ reqLog' = Append(reqLog, [query |-> PageQuery(startIndex),
                                       outcome |-> kind,
                                       Items |-> <<>>, TotalRecordCount |-> 0])
          /\ fetchRet' = ReturnError(all, Error(kind))
    /\ pc' = "returned"
    /\ UNCHANGED <<client, server, startIndex, all, albumList, fetched, resp,
                   last, arg, ret, conc>>

\* Lines 95-134: one iteration of the loop whose request succeeds.
PageArrives ==
    /\ pc = "fetch_loop"
    /\ Len(reqLog) < MaxRequests
    /\ \E n \in PageLens, total \in ReportedTotals(server) :
          LET query == PageQuery(startIndex)
              ir == ServerPage(server, query, n, total)
              newAll == all \o ir.Items
              newIndex == Advance(startIndex, ir)
          IN  /\ reqLog' = Append(reqLog, [query |-> query, outcome |-> "ok",
                                           Items |-> ir.Items,
                                           TotalRecordCount |-> ir.TotalRecordCount])
              /\ all' = newAll
              /\ startIndex' = newIndex
              /\ IF StopFetch(newIndex, ir)
                 THEN /\ pc' = "returned"
                      /\ fetchRet' = [albums |-> newAll, err |-> NoError]
                 ELSE /\ pc' = "fetch_loop"
                      /\ fetchRet' = fetchRet
    /\ UNCHANGED <<client, server, albumList, fetched, resp, last, arg, ret, conc>>


(***************************************************************************)
(* The strings of the model, as code points.                               *)
(***************************************************************************)
S_AbbeyRoad == <<65, 98, 98, 101, 121, 32, 82, 111, 97, 100>>    \* "Abbey Road"
S_abbeyRoadLower == <<97, 98, 98, 101, 121, 32, 114, 111, 97, 100>>    \* "abbey road"
S_TheBeatles == <<84, 104, 101, 32, 66, 101, 97, 116, 108, 101, 115>>    \* "The Beatles"
S_The == <<84, 104, 101>>    \* "The"
S_Beatles == <<66, 101, 97, 116, 108, 101, 115>>    \* "Beatles"
S_RollingStones == <<82, 111, 108, 108, 105, 110, 103, 32, 83, 116, 111, 110, 101, 115>>    \* "Rolling Stones"
S_Tusk == <<84, 117, 115, 107>>    \* "Tusk"
S_Tusks == <<84, 117, 115, 107, 115>>    \* "Tusks"
S_Blue == <<66, 108, 117, 101>>    \* "Blue"
S_BlueBang == <<66, 108, 117, 101, 33>>    \* "Blue!"
S_Blu == <<66, 108, 117>>    \* "Blu"
S_Fleetwood == <<70, 108, 101, 101, 116, 119, 111, 111, 100>>    \* "Fleetwood"
S_Mac == <<77, 97, 99>>    \* "Mac"
S_FleetwoodMac == <<70, 108, 101, 101, 116, 119, 111, 111, 100, 32, 77, 97, 99>>    \* "Fleetwood Mac"
S_Joni == <<74, 111, 110, 105>>    \* "Joni"
S_Mitchell == <<77, 105, 116, 99, 104, 101, 108, 108>>    \* "Mitchell"
S_JoniMitchell == <<74, 111, 110, 105, 32, 77, 105, 116, 99, 104, 101, 108, 108>>    \* "Joni Mitchell"
S_JoniMitchel == <<74, 111, 110, 105, 32, 77, 105, 116, 99, 104, 101, 108>>    \* "Joni Mitchel"
S_Bleach == <<66, 108, 101, 97, 99, 104>>    \* "Bleach"
S_bleachLower == <<98, 108, 101, 97, 99, 104>>    \* "bleach"
S_Nirvana == <<78, 105, 114, 118, 97, 110, 97>>    \* "Nirvana"
S_NIRVANA == <<78, 73, 82, 86, 65, 78, 65>>    \* "NIRVANA"
S_Year1969 == <<49, 57, 54, 57>>    \* "1969"
S_Year1971 == <<49, 57, 55, 49>>    \* "1971"
S_Year1979 == <<49, 57, 55, 57>>    \* "1979"
S_YearUnknown == <<110, 47, 97>>    \* "n/a"

(***************************************************************************)
(* main, lines 326-337: the fetched records are appended to albumList,     *)
(* which is then sorted by lower-cased AlbumArtist, then lower-cased Name. *)
(***************************************************************************)
\* a < b for Go strings: lexicographic (bytewise on UTF-8, which orders
\* strings as their code points do)
RECURSIVE StringLess(_, _)
StringLess(a, b) ==
    IF b = <<>> THEN FALSE
    ELSE IF a = <<>> THEN TRUE
    ELSE IF Head(a) # Head(b) THEN Head(a) < Head(b)
    ELSE StringLess(Tail(a), Tail(b))

\* The less function handed to sort.Slice.
AlbumLess(x, y) ==
    LET ai == ToLower(x.AlbumArtist)
        aj == ToLower(y.AlbumArtist)
    IN  IF ai = aj THEN StringLess(ToLower(x.Name), ToLower(y.Name))
        ELSE StringLess(ai, aj)

IndexPermutations(n) ==
    {p \in [1..n -> 1..n] : \A i, j \in 1..n : i # j => p[i] # p[j]}

\* sort.Slice is not stable: any ordering of the elements in which no
\* element is less than one before it may result.
SortSliceResults(xs) ==
    {[i \in 1..Len(xs) |-> xs[p[i]]] : p \in
        {q \in IndexPermutations(Len(xs)) :
            \A i, j \in 1..Len(xs) : i < j => ~AlbumLess(xs[q[j]], xs[q[i]])}}

(***************************************************************************)
(* parseRymCSV.  The body of a request is taken after the csv.Reader: the  *)
(* rows it produced, or its error.                                         *)
(***************************************************************************)
\* strings.TrimSpace(s)
RECURSIVE TrimLeft(_)
TrimLeft(s) == IF s # <<>> /\ IsSpace(Head(s)) THEN TrimLeft(Tail(s)) ELSE s

RECURSIVE TrimRight(_)
TrimRight(s) ==
    IF s # <<>> /\ IsSpace(s[Len(s)]) THEN TrimRight(SubSeq(s, 1, Len(s) - 1)) ELSE s

TrimSpace(s) == TrimRight(TrimLeft(s))

\* trimAll(xs)
trimAll(xs) == [i \in 1..Len(xs) |-> TrimSpace(xs[i])]

\* strconv.Atoi(s), its error dropped: an optional sign and decimal digits,
\* and 0 for anything else.
RECURSIVE DigitsValue(_, _)
DigitsValue(s, acc) ==
    IF s = <<>> THEN acc ELSE DigitsValue(Tail(s), 10 * acc + (Head(s) - 48))

Atoi(s) ==
    LET signed == s # <<>> /\ Head(s) \in {43, 45}
        digits == IF signed THEN Tail(s) ELSE s
    IN  IF digits = <<>> \/ \E i \in 1..Len(digits) : digits[i] \notin 48..57
        THEN 0
        ELSE IF signed /\ Head(s) = 45 THEN 0 - DigitsValue(digits, 0)
        ELSE DigitsValue(digits, 0)

\* Lines 275-295: the Album of one data row.  cols[6] is the highest index
\* read, and the first.
RowAlbum(row) ==
    LET cols == trimAll(row)
        first == cols[2]
        lastName == cols[3]
    IN  Album(cols[1], <<>>, cols[6],
              TrimSpace(Join(<<first, lastName>>, <<32>>)), Atoi(cols[7]))

\* The number of columns the row loop indexes.
ColumnsRead == 7

\* The number of columns the header must have.
HeaderColumns == 12

\* parseRymCSV(r): the albums, the error, and whether indexing a row
\* panicked (index out of range).
parseRymCSV(body) ==
    IF body.csvErr
    THEN [albums |-> <<>>, err |-> Error("csv"), panicked |-> FALSE]
    ELSE IF Len(body.rows) = 0
    THEN [albums |-> <<>>, err |-> Error("empty CSV"), panicked |-> FALSE]
    ELSE IF Len(trimAll(body.rows[1])) < HeaderColumns
    THEN [albums |-> <<>>,
          err |-> [kind |-> "header", got |-> Len(body.rows[1]),
                   want |-> HeaderColumns],
          panicked |-> FALSE]
    ELSE IF \E i \in 2..Len(body.rows) : Len(body.rows[i]) < ColumnsRead
    THEN [albums |-> <<>>, err |-> NoError, panicked |-> TRUE]
    ELSE [albums |-> [i \in 1..(Len(body.rows) - 1) |-> RowAlbum(body.rows[i + 1])],
          err |-> NoError, panicked |-> FALSE]

(***************************************************************************)
(* renderForm.                                                             *)
(***************************************************************************)
\* json.MarshalIndent(albums): one object per album, keyed by the json tags.
MarshalAlbum(a) ==
    [rym_album_id |-> a.RYMAlbumID, Id |-> a.ID, Name |-> a.Name,
     AlbumArtist |-> a.AlbumArtist, ProductionYear |-> a.ProductionYear,
     Overview |-> a.Overview, PrimaryImageTag |-> a.PrimaryImageTag]

MarshalIndent(albums) == [i \in 1..Len(albums) |-> MarshalAlbum(albums[i])]

\* An acceptance test that takes either similarity.
AcceptedEither(titleSim, artistSim) ==
    FloatGt(titleSim, Threshold) \/ FloatGt(artistSim, Threshold)

\* An acceptance test whose thresholds are not strict.
AcceptedNonStrict(titleSim, artistSim) ==
    FloatLeq(Threshold, titleSim) /\ FloatLeq(Threshold, artistSim)

\* if titleSim > 0.75 && artistSim > 0.75
Accepted(titleSim, artistSim) ==
    FloatGt(titleSim, Threshold) /\ FloatGt(artistSim, Threshold)

\* Lines 182-193: the scan of the reference list from index k, left at the
\* first accepted match.
RECURSIVE IsDuplicateFrom(_, _, _)
IsDuplicateFrom(jfAlbum, albums, k) ==
    IF k > Len(albums) THEN FALSE
    ELSE LET jfTitle == normalize(ToLower(jfAlbum.Name))
             jfArtist == normalize(ToLower(jfAlbum.AlbumArtist))
             rymTitle == normalize(ToLower(albums[k].Name))
             rymArtist == normalize(ToLower(albums[k].AlbumArtist))
             titleSim == similarity(jfTitle, rymTitle)
             artistSim == similarity(jfArtist, rymArtist)
         IN  IF Accepted(titleSim, artistSim) THEN TRUE
             ELSE IsDuplicateFrom(jfAlbum, albums, k + 1)

\* A loop that puts each kept record in front of the ones kept before it.
RECURSIVE FilteredPrepending(_, _)
FilteredPrepending(list, albums) ==
    IF list = <<>> THEN <<>>
    ELSE IF IsDuplicateFrom(Head(list), albums, 1)
    THEN FilteredPrepending(Tail(list), albums)
    ELSE FilteredPrepending(Tail(list), albums) \o <<Head(list)>>

\* Lines 176-197: filtered, the records of list that are no duplicate.
RECURSIVE Filtered(_, _)
Filtered(list, albums) ==
    IF list = <<>> THEN <<>>
    ELSE IF IsDuplicateFrom(Head(list), albums, 1) THEN Filtered(Tail(list), albums)
    ELSE <<Head(list)>> \o Filtered(Tail(list), albums)

\* A store that appends the kept records to the list.
StoredAppending(list, filtered) == list \o filtered

\* albumList = filtered
Stored(list, filtered) == filtered

\* A renderForm that skips the loop and renders no record when it is handed
\* no reference record.
renderFormSkippingEmpty(list, albums, errMsg, tplErr) ==
    LET jsonOut == IF Len(albums) > 0 THEN MarshalIndent(albums) ELSE <<>>
        filtered == IF Len(albums) > 0 THEN Filtered(list, albums) ELSE <<>>
        newList == IF Len(albums) > 0 THEN Stored(list, filtered) ELSE list
    IN  [albumList |-> newList,
         albums |-> albums,
         resp |-> IF tplErr
                  THEN [status |-> 500, Albums |-> <<>>, JSON |-> <<>>, Err |-> NoMessage]
                  ELSE [status |-> 200, Albums |-> filtered, JSON |-> jsonOut,
                        Err |-> errMsg]]

\* A renderForm that keeps the normalized title and artist in the records
\* it compares, the local ones and the caller's reference ones.
NormalizedInPlace(xs) ==
    [i \in 1..Len(xs) |->
        [xs[i] EXCEPT !.Name = normalize(ToLower(xs[i].Name)),
                      !.AlbumArtist = normalize(ToLower(xs[i].AlbumArtist))]]

renderFormNormalizingInPlace(list, albums, errMsg, tplErr) ==
    LET jsonOut == IF Len(albums) > 0 THEN MarshalIndent(albums) ELSE <<>>
        filtered == NormalizedInPlace(Filtered(list, albums))
        newList == Stored(list, filtered)
    IN  [albumList |-> newList,
         albums |-> NormalizedInPlace(albums),
         resp |-> IF tplErr
                  THEN [status |-> 500, Albums |-> <<>>, JSON |-> <<>>, Err |-> NoMessage]
                  ELSE [status |-> 200, Albums |-> newList, JSON |-> jsonOut,
                        Err |-> errMsg]]

\* renderForm(w, albums, errMsg) on the albumList `list`: the new albumList,
\* the elements of the caller's slice albums after the call (the loops
\* range over copies, jfAlbum and rymAlbum, and assign to no element) and
\* the response.  tplErr: ExecuteTemplate failed.
renderForm(list, albums, errMsg, tplErr) ==
    LET jsonOut == IF Len(albums) > 0 THEN MarshalIndent(albums) ELSE <<>>
        filtered == Filtered(list, albums)
        newList == Stored(list, filtered)
    IN  [albumList |-> newList,
         albums |-> albums,
         resp |-> IF tplErr
                  THEN [status |-> 500, Albums |-> <<>>, JSON |-> <<>>, Err |-> NoMessage]
                  ELSE [status |-> 200, Albums |-> newList, JSON |-> jsonOut,
                        Err |-> errMsg]]


(***************************************************************************)
(* The inputs of the model: the catalogs the server may hold and the       *)
(* bodies a POST may carry.                                                *)
(***************************************************************************)
CatalogBeatles ==
    <<JfAlbum("jf1", S_abbeyRoadLower, S_Beatles, 1969),
      JfAlbum("jf2", S_AbbeyRoad, S_RollingStones, 1969)>>

CatalogThreshold ==
    <<JfAlbum("jf3", S_Tusks, S_FleetwoodMac, 1979),
      JfAlbum("jf4", S_Blu, S_JoniMitchell, 1971),
      JfAlbum("jf5", S_Tusk, S_JoniMitchell, 1979),
      JfAlbum("jf6", S_BlueBang, S_JoniMitchel, 1971)>>

\* Two records sort.Slice does not tell apart.
CatalogTies ==
    <<JfAlbum("jf7", S_Bleach, S_Nirvana, 0),
      JfAlbum("jf8", S_bleachLower, S_NIRVANA, 0)>>

\* A server that holds the same record twice.
CatalogRepeat ==
    <<JfAlbum("jf5", S_Tusk, S_JoniMitchell, 1979),
      JfAlbum("jf5", S_Tusk, S_JoniMitchell, 1979)>>

Catalogs == {<<>>, CatalogBeatles, CatalogThreshold, CatalogTies, CatalogRepeat}

\* Catalogs of records without text, for the fetch alone.
BulkCatalog(n) == [i \in 1..n |-> JfAlbum(i, <<>>, <<>>, 0)]
BulkSizes == {0, 1, 3, 250}

RymHeader == [i \in 1..12 |-> <<72>>]

RymRow(id, first, lastName, title, date) ==
    <<id, first, lastName, <<>>, <<>>, title, date, <<>>, <<>>, <<>>, <<>>, <<>>>>

CsvRows(rows) == [csvErr |-> FALSE, rows |-> rows]

BodyBeatles ==
    CsvRows(<<RymHeader, RymRow(<<49>>, S_The, S_Beatles, S_AbbeyRoad, S_Year1969)>>)

BodyThreshold ==
    CsvRows(<<RymHeader,
              RymRow(<<50>>, S_Fleetwood, S_Mac, S_Tusk, S_Year1979),
              RymRow(<<51>>, S_Joni, S_Mitchell, S_Blue, S_YearUnknown)>>)

BodyTusk ==
    CsvRows(<<RymHeader, RymRow(<<50>>, S_Fleetwood, S_Mac, S_Tusk, S_Year1979)>>)

BodyBlue ==
    CsvRows(<<RymHeader, RymRow(<<51>>, S_Joni, S_Mitchell, S_Blue, S_YearUnknown)>>)

BodyHeaderOnly == CsvRows(<<RymHeader>>)
BodyEmpty == CsvRows(<<>>)
BodyShortHeader == CsvRows(<<SubSeq(RymHeader, 1, 3)>>)
BodyShortRow == CsvRows(<<RymHeader, <<<<52>>, S_Joni, S_Mitchell>>>>)
BodyMalformed == [csvErr |-> TRUE, rows |-> <<>>]

Bodies ==
    {BodyBeatles, BodyThreshold, BodyTusk, BodyBlue, BodyHeaderOnly, BodyEmpty,
     BodyShortHeader, BodyShortRow, BodyMalformed}

NoResponse == [status |-> 0, Albums |-> <<>>, JSON |-> <<>>, Err |-> NoMessage]
NoRequest ==
    [method |-> "none", rendered |-> FALSE, albums |-> <<>>, after |-> <<>>,
     before |-> <<>>]
Pending == [albums |-> <<>>, err |-> Error("pending")]
NoGoroutines == <<>>

(***************************************************************************)
(* main, lines 322-342.                                                    *)
(***************************************************************************)
\* A main that logs the error of GetAllAlbums and serves what it got.
MainAfterFetchIgnoringError ==
    /\ pc = "returned"
    /\ pc' = "serve"
    /\ albumList' \in SortSliceResults(albumList \o fetchRet.albums)
    /\ fetched' = albumList'
    /\ startIndex' = 0
    /\ all' = <<>>
    /\ reqLog' = <<>>
    /\ UNCHANGED <<client, server, fetchRet, resp, last, arg, ret, conc>>

\* After GetAllAlbums returns: panic on an error; else append, sort and
\* listen.  GetAllAlbums' locals are gone.
MainAfterFetch ==
    /\ pc = "returned"
    /\ IF fetchRet.err # NoError
       THEN /\ pc' = "panic"
            /\ UNCHANGED <<albumList, fetched>>
       ELSE /\ pc' = "serve"
            /\ albumList' \in SortSliceResults(albumList \o fetchRet.albums)
            /\ fetched' = albumList'
    /\ startIndex' = 0
    /\ all' = <<>>
    /\ reqLog' = <<>>
    /\ UNCHANGED <<client, server, fetchRet, resp, last, arg, ret, conc>>

(***************************************************************************)
(* The handler registered by ServeRymCSVForm, one request at a time.       *)
(***************************************************************************)
\* The effect of a call of renderForm on albumList, resp and last.
Render(method, albums, errMsg, tplErr) ==
    LET r == renderForm(albumList, albums, errMsg, tplErr)
    IN  /\ albumList' = r.albumList
        /\ resp' = r.resp
        /\ last' = [method |-> method, rendered |-> TRUE, albums |-> albums,
                    after |-> r.albums,
                    before |-> albumList]

\* The effect of a request that ends without a call of renderForm.
NoRender(method, status) ==
    /\ resp' = [status |-> status, Albums |-> <<>>, JSON |-> <<>>, Err |-> NoMessage]
    /\ last' = [method |-> method, rendered |-> FALSE, albums |-> <<>>,
                after |-> <<>>,
                before |-> albumList]
    /\ UNCHANGED albumList

\* case http.MethodGet
HandleGet ==
    /\ pc = "serve"
    /\ \E tplErr \in BOOLEAN : Render("GET", <<>>, NoMessage, tplErr)
    /\ UNCHANGED <<pc, client, server, startIndex, all, reqLog, fetchRet,
                   fetched, arg, ret, conc>>

\* case http.MethodPost: the body is an uploaded file (which may fail to be
\* read) or the csvtext field.  A panic in parseRymCSV ends the request
\* with no response (net/http recovers it and closes the connection).
HandlePost ==
    /\ pc = "serve"
    /\ \E upload \in {"file", "unreadable file", "text"}, body \in Bodies,
          tplErr \in BOOLEAN :
          IF upload = "unreadable file"
          THEN NoRender("POST", 400)
          ELSE LET parsed == parseRymCSV(body)
               IN  IF parsed.panicked THEN NoRender("POST", 0)
                   ELSE IF parsed.err # NoError
                   THEN Render("POST", <<>>, ParseErrorMessage(parsed.err), tplErr)
                   ELSE Render("POST", parsed.albums, NoMessage, tplErr)
    /\ UNCHANGED <<pc, client, server, startIndex, all, reqLog, fetchRet,
                   fetched, arg, ret, conc>>

\* default: 405
HandleOther ==
    /\ pc = "serve"
    /\ \E method \in {"PUT", "DELETE"} : NoRender(method, 405)
    /\ UNCHANGED <<pc, client, server, startIndex, all, reqLog, fetchRet,
                   fetched, arg, ret, conc>>

(***************************************************************************)
(* Specifications.                                                         *)
(***************************************************************************)
MainClient == [BaseURL |-> "https://jf.skaremyr.se"]

IdleProgram ==
    /\ startIndex = 0
    /\ all = <<>>
    /\ reqLog = <<>>
    /\ fetchRet = Pending
    /\ albumList = <<>>
    /\ fetched = <<>>
    /\ resp = NoResponse
    /\ last = NoRequest
    /\ conc = NoGoroutines

\* The program: main fetches the catalog, then serves requests.
Init ==
    /\ pc = "fetch_start"
    /\ client = MainClient
    /\ server \in Catalogs
    /\ IdleProgram
    /\ arg = <<>>
    /\ ret = <<>>

Next ==
    \/ GetAllAlbumsBegin
    \/ PageFails
    \/ PageArrives
    \/ MainAfterFetch
    \/ HandleGet
    \/ HandlePost
    \/ HandleOther

Spec == Init /\ [][Next]_vars

\* GetAllAlbums alone, on any client and against larger catalogs.
InitFetch ==
    /\ pc = "fetch_start"
    /\ client \in {MainClient, [BaseURL |-> BadBaseURL]}
    /\ server \in {BulkCatalog(n) : n \in BulkSizes}
    /\ IdleProgram
    /\ arg = <<>>
    /\ ret = <<>>

NextFetch ==
    \/ GetAllAlbumsBegin
    \/ PageFails
    \/ PageArrives

SpecFetch == InitFetch /\ [][NextFetch]_vars

\* normalize, applied to a string and then to its own result.
NormalizeAlphabet == {65, 201, 233, 769, 807, 49, 32, 9, 33, 978}

InitNormalize ==
    /\ pc = "normalize"
    /\ client = MainClient
    /\ server = <<>>
    /\ IdleProgram
    /\ arg \in {<<s>> : s \in StringsUpTo(NormalizeAlphabet, MaxNormLen)}
    /\ ret = <<>>

NormalizeCall ==
    /\ pc = "normalize"
    /\ Len(ret) < 2
    /\ ret' = Append(ret, normalize(IF ret = <<>> THEN arg[1] ELSE ret[Len(ret)]))
    /\ UNCHANGED <<pc, arg>>
    /\ UNCHANGED progVars

SpecNormalize == InitNormalize /\ [][NormalizeCall]_vars

\* similarity, applied to a pair of strings and then to the swapped pair.
SimilarityAlphabet == {97, 98, 99}

InitSimilarity ==
    /\ pc = "similarity"
    /\ client = MainClient
    /\ server = <<>>
    /\ IdleProgram
    /\ arg \in StringsUpTo(SimilarityAlphabet, MaxSimLen)
               \X StringsUpTo(SimilarityAlphabet, MaxSimLen)
    /\ ret = <<>>

SimilarityCall ==
    /\ pc = "similarity"
    /\ Len(ret) < 2
    /\ ret' = Append(ret, IF ret = <<>> THEN similarityRun(arg[1], arg[2])
                          ELSE similarityRun(arg[2], arg[1]))
    /\ UNCHANGED <<pc, arg>>
    /\ UNCHANGED progVars

SpecSimilarity == InitSimilarity /\ [][SimilarityCall]_vars

(***************************************************************************)
(* Two requests handled at the same time.  net/http runs the handler of    *)
(* each request on a goroutine of its own, and renderForm takes no lock:   *)
(* a goroutine reads albumList when its range loop begins (line 177),      *)
(* writes it after the loop (line 198) and reads it again for the template *)
(* (line 201).  Each of these accesses is a step; the loop between the     *)
(* first two touches only locals.                                          *)
(***************************************************************************)
Goroutines == {1, 2}
Other(h) == 3 - h

ConcurrentRequests ==
    {[method |-> "GET", body |-> BodyEmpty]} \cup
    {[method |-> "POST", body |-> b] : b \in {BodyTusk, BodyBlue, BodyEmpty}}

\* The arguments the handler calls renderForm with (lines 213-240).
RenderArgs(request) ==
    IF request.method = "GET" THEN [albums |-> <<>>, errMsg |-> NoMessage]
    ELSE LET parsed == parseRymCSV(request.body)
         IN  IF parsed.err # NoError
             THEN [albums |-> <<>>, errMsg |-> ParseErrorMessage(parsed.err)]
             ELSE [albums |-> parsed.albums, errMsg |-> NoMessage]

HandlerAccepted(request) ==
    [pc |-> "accepted", request |-> request,
     albums |-> RenderArgs(request).albums, errMsg |-> RenderArgs(request).errMsg,
     ranged |-> <<>>, filtered |-> <<>>, resp |-> NoResponse]

\* A slice is a pointer, a length and a capacity.  An access that is not
\* ordered with a write of the slice may see the pointer of one value and
\* the length of the other: the elements of x cut at the length of y.
TornValues(x, y) ==
    (IF Len(y) <= Len(x) THEN {SubSeq(x, 1, Len(y))} ELSE {}) \cup
    (IF Len(x) <= Len(y) THEN {SubSeq(y, 1, Len(x))} ELSE {})

\* ... or a length larger than the array pointed to holds.
TornBeyond(x, y) == Len(x) # Len(y)

\* The write of the other goroutine is pending: its loop is done, its
\* store is not, and nothing orders that store with an access by h.
StorePending(h) == conc[Other(h)].pc = "ranged"

\* The values a read of albumList by goroutine h may yield.
ReadAlbumList(h) ==
    IF StorePending(h)
    THEN {albumList} \cup TornValues(albumList, conc[Other(h)].filtered)
    ELSE {albumList}

\* for _, jfAlbum := range albumList { ... }: the range expression is
\* evaluated once, and the loop fills the local filtered.
renderFormRange(h) ==
    /\ pc = "serve_concurrently"
    /\ conc[h].pc = "accepted"
    /\ \E v \in ReadAlbumList(h) :
          conc' = [conc EXCEPT ![h].pc = "ranged", ![h].ranged = v,
                               ![h].filtered = Filtered(v, conc[h].albums)]
    /\ UNCHANGED <<pc, client, server, startIndex, all, reqLog, fetchRet, albumList,
                   fetched, resp, last, arg, ret>>

\* A read of albumList that saw a length beyond its array: the goroutine
\* panics, net/http recovers it and the request gets no response.
renderFormFault(h) ==
    /\ pc = "serve_concurrently"
    /\ conc[h].pc \in {"accepted", "stored"}
    /\ StorePending(h)
    /\ TornBeyond(albumList, conc[Other(h)].filtered)
    /\ conc' = [conc EXCEPT ![h].pc = "fault"]
    /\ UNCHANGED <<pc, client, server, startIndex, all, reqLog, fetchRet, albumList,
                   fetched, resp, last, arg, ret>>

\* albumList = filtered
renderFormStore(h) ==
    /\ pc = "serve_concurrently"
    /\ conc[h].pc = "ranged"
    /\ albumList' = Stored(conc[h].ranged, conc[h].filtered)
    /\ conc' = [conc EXCEPT ![h].pc = "stored"]
    /\ UNCHANGED <<pc, client, server, startIndex, all, reqLog, fetchRet,
                   fetched, resp, last, arg, ret>>

\* The stores of both goroutines at once: albumList is left with either
\* value or with the pointer of one and the length of the other.
renderFormStoreBoth ==
    /\ pc = "serve_concurrently"
    /\ \A h \in Goroutines : conc[h].pc = "ranged"
    /\ albumList' \in {conc[1].filtered, conc[2].filtered}
                        \cup TornValues(conc[1].filtered, conc[2].filtered)
    /\ conc' = [h \in Goroutines |-> [conc[h] EXCEPT !.pc = "stored"]]
    /\ UNCHANGED <<pc, client, server, startIndex, all, reqLog, fetchRet,
                   fetched, resp, last, arg, ret>>

\* pageTpl.ExecuteTemplate(w, "page", {"Albums": albumList, ...})
renderFormExecute(h) ==
    /\ pc = "serve_concurrently"
    /\ conc[h].pc = "stored"
    /\ \E v \in ReadAlbumList(h), tplErr \in BOOLEAN :
          conc' = [conc EXCEPT
                      ![h].pc = "done",
                      ![h].resp =
                          IF tplErr
                          THEN [status |-> 500, Albums |-> <<>>, JSON |-> <<>>,
                                Err |-> NoMessage]
                          ELSE [status |-> 200, Albums |-> v,
                                JSON |-> IF Len(conc[h].albums) > 0
                                         THEN MarshalIndent(conc[h].albums) ELSE <<>>,
                                Err |-> conc[h].errMsg]]
    /\ UNCHANGED <<pc, client, server, startIndex, all, reqLog, fetchRet, albumList,
                   fetched, resp, last, arg, ret>>

\* main has sorted the catalog and listens; two requests have arrived.
InitConcurrent ==
    /\ pc = "serve_concurrently"
    /\ client = MainClient
    /\ server = CatalogThreshold
    /\ startIndex = 0
    /\ all = <<>>
    /\ reqLog = <<>>
    /\ fetchRet = [albums |-> server, err |-> NoError]
    /\ albumList \in SortSliceResults(server)
    /\ fetched = albumList
    /\ resp = NoResponse
    /\ last = NoRequest
    /\ arg = <<>>
    /\ ret = <<>>
    /\ conc \in [Goroutines -> {HandlerAccepted(r) : r \in ConcurrentRequests}]

NextConcurrent ==
    \/ \E h \in Goroutines : renderFormRange(h)
    \/ \E h \in Goroutines : renderFormFault(h)
    \/ \E h \in Goroutines : renderFormStore(h)
    \/ renderFormStoreBoth
    \/ \E h \in Goroutines : renderFormExecute(h)

SpecConcurrent == InitConcurrent /\ [][NextConcurrent]_vars


(***************************************************************************)
(* Properties.                                                             *)
(***************************************************************************)
TitleSim(local, ref) == similarity(normalize(local.Name), normalize(ref.Name))
ArtistSim(local, ref) ==
    similarity(normalize(local.AlbumArtist), normalize(ref.AlbumArtist))

\* x > 0.75, on the exact value: 4 * num > 3 * den.
Above75(x) == 4 * x.num > 3 * x.den
Exactly75(x) == 4 * x.num = 3 * x.den

HasMatchAboveBoth(local, refs) ==
    \E k \in 1..Len(refs) :
        Above75(TitleSim(local, refs[k])) /\ Above75(ArtistSim(local, refs[k]))

KeepUnmatched(list, refs) ==
    SelectSeq(list, LAMBDA local : ~HasMatchAboveBoth(local, refs))

\* C1: a call of renderForm leaves in albumList exactly the records of the
\* albumList before it for which no reference record has both the title
\* similarity and the artist similarity strictly above 0.75: one similarity
\* above 0.75, or a similarity equal to 0.75, excludes nothing.
C1_DuplicateIffBothAbove ==
    last.rendered =>
        /\ albumList = KeepUnmatched(last.before, last.albums)
        /\ \A i \in 1..Len(last.before) :
              (\A k \in 1..Len(last.albums) :
                  \/ ~Above75(TitleSim(last.before[i], last.albums[k]))
                  \/ ~Above75(ArtistSim(last.before[i], last.albums[k])))
              => \E j \in 1..Len(albumList) : albumList[j] = last.before[i]

\* A reconciliation that dropped a record and kept two others: one whose
\* title similarity to a reference record is exactly 0.75 (the artist's
\* above), one with the title above for one reference record and the artist
\* above for another.
C1_Witness ==
    /\ last.rendered
    /\ Len(albumList) < Len(last.before)
    /\ \E i \in 1..Len(albumList), k \in 1..Len(last.albums) :
          /\ Exactly75(TitleSim(albumList[i], last.albums[k]))
          /\ Above75(ArtistSim(albumList[i], last.albums[k]))
    /\ \E i \in 1..Len(albumList), k, m \in 1..Len(last.albums) :
          /\ Above75(TitleSim(albumList[i], last.albums[k]))
          /\ ~Above75(ArtistSim(albumList[i], last.albums[k]))
          /\ Above75(ArtistSim(albumList[i], last.albums[m]))

\* The case of C2: the local catalog is the one record "abbey road" by
\* "Beatles", the reference list the one record "Abbey Road" by
\* "The Beatles".
C2_Case ==
    /\ last.rendered
    /\ Len(last.before) = 1
    /\ last.before[1].Name = S_abbeyRoadLower
    /\ last.before[1].AlbumArtist = S_Beatles
    /\ Len(last.albums) = 1
    /\ last.albums[1].Name = S_AbbeyRoad
    /\ last.albums[1].AlbumArtist = S_TheBeatles

\* C2 as stated: in that case the unique set is empty.
C2_Original == C2_Case => albumList = <<>>

\* C2, amended: in that case the local record is kept as unique: the title
\* similarity is 1 but the artist similarity of "beatles" and "the beatles"
\* is 1 - 4/11 = 7/11, which is not above 0.75.
C2_LocalKept ==
    C2_Case =>
        /\ albumList = last.before
        /\ FloatEq(TitleSim(last.before[1], last.albums[1]), Float(1, 1))
        /\ FloatEq(ArtistSim(last.before[1], last.albums[1]), Float(7, 11))
        /\ resp.status = 200 => resp.Albums = last.before

C2_Witness == C2_Case /\ resp.status = 200

\* C3: the unique set a request renders is the one the same reference list
\* gives as the very first request, against the catalog as fetched.
C3_IndependentOfHistory ==
    (last.rendered /\ resp.status = 200) =>
        resp.Albums = KeepUnmatched(fetched, last.albums)

\* The number of items received in the first i pages.
RECURSIVE Received(_, _)
Received(log, i) == IF i = 0 THEN 0 ELSE Received(log, i - 1) + Len(log[i].Items)

\* The stop condition of C4 after page i.
Reached(log, i) ==
    Received(log, i) >= log[i].TotalRecordCount \/ Len(log[i].Items) = 0

\* C4: GetAllAlbums goes on to another request exactly after a successful
\* page that left the items received below the total it reported and was
\* not empty, and returns successfully exactly after one that did not.
\* Pages of 200 (total 250) and 50 make two requests; so do a total of 1000
\* on every page and an empty second page.
C4_StopsExactlyWhen ==
    /\ \A i \in 1..Len(reqLog) :
          i < Len(reqLog) => (reqLog[i].outcome = "ok" /\ ~Reached(reqLog, i))
    /\ (pc = "fetch_loop" /\ reqLog # <<>>) =>
          (reqLog[Len(reqLog)].outcome = "ok" /\ ~Reached(reqLog, Len(reqLog)))
    /\ (pc = "returned" /\ fetchRet.err = NoError) =>
          /\ reqLog # <<>>
          /\ reqLog[Len(reqLog)].outcome = "ok"
          /\ Reached(reqLog, Len(reqLog))
    /\ ( /\ Len(reqLog) >= 2
         /\ Len(reqLog[1].Items) = 200 /\ reqLog[1].TotalRecordCount = 250
         /\ reqLog[2].outcome = "ok"
         /\ Len(reqLog[2].Items) = 50 /\ reqLog[2].TotalRecordCount = 250 )
       => (Len(reqLog) = 2 /\ pc = "returned" /\ Len(fetchRet.albums) = 250)
    /\ ( /\ Len(reqLog) >= 2
         /\ reqLog[1].TotalRecordCount = 1000
         /\ reqLog[2].outcome = "ok"
         /\ reqLog[2].TotalRecordCount = 1000 /\ Len(reqLog[2].Items) = 0 )
       => (Len(reqLog) = 2 /\ pc = "returned" /\ fetchRet.err = NoError)

\* The fetch of 250 records in a page of 200 and a page of 50.
C4_Witness ==
    /\ pc = "returned"
    /\ fetchRet.err = NoError
    /\ Len(reqLog) = 2
    /\ Len(reqLog[1].Items) = 200 /\ reqLog[1].TotalRecordCount = 250
    /\ Len(reqLog[2].Items) = 50 /\ reqLog[2].TotalRecordCount = 250
    /\ fetchRet.albums = server

RECURSIVE ConcatItems(_, _)
ConcatItems(log, i) ==
    IF i = 0 THEN <<>> ELSE ConcatItems(log, i - 1) \o log[i].Items

\* The server reports its true total on every page and sends at least one
\* record per page (it holds any).
HonestServer ==
    \A i \in 1..Len(reqLog) :
        /\ reqLog[i].outcome = "ok"
        /\ reqLog[i].TotalRecordCount = Len(server)
        /\ Len(reqLog[i].Items) >= 1 \/ Len(server) = 0

\* C5: the first request asks for offset 0, every request for 200 records
\* from the offset that is the number of items the earlier pages returned;
\* a successful fetch returns the pages' items in request order, and from a
\* server that sends slices of its list, however short, with its true
\* total, the list itself.
C5_OffsetsAndConcatenation ==
    /\ \A i \in 1..Len(reqLog) :
          /\ reqLog[i].query.Limit = 200
          /\ reqLog[i].query.StartIndex = Received(reqLog, i - 1)
    /\ (pc = "returned" /\ fetchRet.err = NoError) =>
          /\ fetchRet.albums = ConcatItems(reqLog, Len(reqLog))
          /\ HonestServer => fetchRet.albums = server

\* A fetch of more than one page, the first one short, that returned the
\* server's list.
C5_Witness ==
    /\ pc = "returned"
    /\ fetchRet.err = NoError
    /\ HonestServer
    /\ Len(reqLog) >= 2
    /\ Len(reqLog[1].Items) = 50
    /\ reqLog[2].query.StartIndex = 50
    /\ fetchRet.albums = server
    /\ Len(server) = 250

\* C6: a failed page request is the last one, and GetAllAlbums returns its
\* error with no items, whatever the earlier pages brought.
C6_FailureReturnsNothing ==
    /\ \A i \in 1..Len(reqLog) :
          reqLog[i].outcome # "ok" =>
              /\ i = Len(reqLog)
              /\ pc = "returned"
              /\ fetchRet.err = Error(reqLog[i].outcome)
              /\ fetchRet.albums = <<>>
    /\ (pc = "returned" /\ fetchRet.err # NoError) => fetchRet.albums = <<>>

\* A transport error on the second page, after a first page with items.
C6_Witness ==
    /\ pc = "returned"
    /\ Len(reqLog) = 2
    /\ reqLog[1].outcome = "ok"
    /\ reqLog[2].outcome = "transport"
    /\ all # <<>>
    /\ fetchRet.albums = <<>>
    /\ fetchRet.err = Error("transport")

\* C7: every value similarity returns lies in [0, 1].
C7_InUnitRange ==
    \A i \in 1..Len(ret) :
        /\ ret[i].result.den > 0
        /\ 0 <= ret[i].result.num
        /\ ret[i].result.num <= ret[i].result.den

\* C8: similarity(a, b) = similarity(b, a); similarity(a, a) = 1 for a
\* non-empty a; similarity is 0 when an argument is empty, the two empty
\* strings included, and never returns from its maxLen == 0 branch.
C8_SymmetricReflexiveEmpty ==
    /\ Len(ret) = 2 => FloatEq(ret[1].result, ret[2].result)
    /\ \A i \in 1..Len(ret) :
          /\ (arg[1] = arg[2] /\ arg[1] # <<>>) => FloatEq(ret[i].result, Float(1, 1))
          /\ (arg[1] = <<>> \/ arg[2] = <<>>) => FloatEq(ret[i].result, Float(0, 1))
          /\ ret[i].branch # "maxLen == 0"

\* similarity has been called on "ab" and "abc", both ways round.
C8_Witness ==
    /\ pc = "similarity"
    /\ Len(ret) = 2
    /\ arg[1] = <<97, 98>>
    /\ arg[2] = <<97, 98, 99>>
    /\ FloatEq(ret[1].result, Float(2, 3))
    /\ FloatEq(ret[2].result, Float(2, 3))

\* similarity has been called on the two empty strings.
C8_WitnessEmpty ==
    /\ pc = "similarity"
    /\ Len(ret) = 2
    /\ arg = <<<<>>, <<>>>>

\* C9: normalize(normalize(s)) = normalize(s).
C9_Idempotent ==
    (pc = "normalize" /\ Len(ret) = 2) => ret[2] = ret[1]

\* normalize has been applied twice to an accented capital, a punctuation
\* mark and a tab.
C9_Witness ==
    /\ pc = "normalize"
    /\ Len(ret) = 2
    /\ arg[1] = <<201, 33, 9>>
    /\ ret[1] = <<101>>

IsPunctOrSymbol(r) == ~IsLetter(r) /\ ~IsNumber(r) /\ ~IsSpace(r) /\ ~IsMn(r)

\* What C10 says of an output but for the case of its letters.
NormalShape(in, out) ==
    /\ \A i \in 1..Len(out) :
          /\ IsLetter(out[i]) \/ IsNumber(out[i]) \/ out[i] = 32
          /\ ~IsMn(out[i])
          /\ ~IsPunctOrSymbol(out[i])
    /\ out # <<>> => (out[1] # 32 /\ out[Len(out)] # 32)
    /\ \A i \in 1..(Len(out) - 1) : ~(out[i] = 32 /\ out[i + 1] = 32)
    /\ (\A i \in 1..Len(in) : IsPunctOrSymbol(in[i]) \/ IsSpace(in[i])) => out = <<>>

\* C10 as stated: the output of normalize has that shape and no upper-case
\* letter.
C10_Original ==
    (pc = "normalize" /\ Len(ret) >= 1) =>
        /\ NormalShape(arg[1], ret[1])
        /\ \A i \in 1..Len(ret[1]) : ~IsUpper(ret[1][i])

\* C10, amended: the output of normalize has that shape and no letter that
\* has a lower-case form other than itself.
C10_ShapeAndLowered ==
    (pc = "normalize" /\ Len(ret) >= 1) =>
        /\ NormalShape(arg[1], ret[1])
        /\ \A i \in 1..Len(ret[1]) : ToLowerRune(ret[1][i]) = ret[1][i]

\* normalize has been applied to an accented capital, a punctuation mark
\* and a space.
C10_Witness ==
    /\ pc = "normalize"
    /\ Len(ret) >= 1
    /\ arg[1] = <<201, 33, 32>>
    /\ ret[1] = <<101>>


\* s is a subsequence of t: the elements of s occur in t in the same order.
RECURSIVE IsSubsequence(_, _)
IsSubsequence(s, t) ==
    IF s = <<>> THEN TRUE
    ELSE IF t = <<>> THEN FALSE
    ELSE IF Head(s) = Head(t) THEN IsSubsequence(Tail(s), Tail(t))
    ELSE IsSubsequence(s, Tail(t))

Count(s, x) == Cardinality({i \in 1..Len(s) : s[i] = x})

\* C11: the unique result of a reconciliation is a subsequence of the local
\* catalog it was computed from: the kept records stand in the order they
\* had, and each kept record occurs exactly as often as it did in the input.
C11_ResultIsSubsequence ==
    last.rendered =>
        /\ IsSubsequence(albumList, last.before)
        /\ \A i \in 1..Len(albumList) :
               Count(albumList, albumList[i]) = Count(last.before, albumList[i])

\* A reconciliation that dropped two of four records and kept the other
\* two in order; and one that kept a record held twice.
C11_Witness ==
    /\ last.rendered
    /\ Len(last.before) = 4
    /\ albumList = <<last.before[3], last.before[4]>>

C11_WitnessRepeated ==
    /\ last.rendered
    /\ last.albums # <<>>
    /\ albumList = CatalogRepeat

\* C12: reconciling against an empty reference set (a GET, or an upload
\* whose rows yield no reference record) does not fail and returns the
\* local catalog unchanged: the same records in the same order, stored and
\* rendered.
C12_EmptyReferenceKeepsAll ==
    (last.rendered /\ last.albums = <<>>) =>
        /\ albumList = last.before
        /\ resp.status \in {200, 500}
        /\ resp.status = 200 => resp.Albums = last.before

\* An upload of a header and no data row, against four local records; and
\* a GET against four local records.
C12_Witness ==
    /\ last.method = "POST"
    /\ last.rendered
    /\ last.albums = <<>>
    /\ resp.status = 200
    /\ resp.Err = NoMessage
    /\ Len(last.before) = 4
    /\ resp.Albums = last.before

C12_WitnessGet ==
    /\ last.method = "GET"
    /\ resp.status = 200
    /\ Len(last.before) = 4
    /\ resp.Albums = last.before

\* The last request was an upload that parseRymCSV rejected with an error,
\* and its response was written.
ParseFailureShown ==
    /\ last.method = "POST"
    /\ resp.status = 200
    /\ resp.Err # NoMessage

\* C13: when parsing of the uploaded reference input fails, the response
\* shows the error message alongside an empty result set.
C13_ParseFailureShowsNoResult ==
    ParseFailureShown => resp.Albums = <<>>

\* The outcome of handling request a and then request b, one after the
\* other, from the list `list`: the final albumList and the list each
\* response renders.
SequentialOutcome(list, a, b) ==
    LET first == renderForm(list, RenderArgs(a).albums, RenderArgs(a).errMsg, FALSE)
        second == renderForm(first.albumList, RenderArgs(b).albums,
                             RenderArgs(b).errMsg, FALSE)
    IN  [albumList |-> second.albumList, first |-> first.resp.Albums,
         second |-> second.resp.Albums]

BothAnswered == \A h \in Goroutines : conc[h].pc = "done" /\ conc[h].resp.status = 200

\* C14: when two requests are handled at the same time, every interleaving
\* of the two handlers leaves the albumList and renders the lists that one
\* of the two sequential orders of those requests leaves and renders.
C14_AsOneSequentialOrder ==
    (pc = "serve_concurrently" /\ BothAnswered) =>
        \/ [albumList |-> albumList, first |-> conc[1].resp.Albums,
             second |-> conc[2].resp.Albums]
               = SequentialOutcome(fetched, conc[1].request, conc[2].request)
        \/ [albumList |-> albumList, first |-> conc[2].resp.Albums,
             second |-> conc[1].resp.Albums]
               = SequentialOutcome(fetched, conc[2].request, conc[1].request)

\* A request has been handled: the handler has run at least once.
Served == last # NoRequest \/ resp # NoResponse

\* C15: a failure of the catalog fetch invalidates the whole run.  A request
\* is handled only when GetAllAlbums has returned without an error, and
\* albumList then started as all the records it returned, sorted; once
\* GetAllAlbums has returned an error, main has panicked, no request has
\* been handled, no response has been written and albumList holds nothing.
C15_ServesOnlyAfterSuccessfulFetch ==
    /\ Served => pc = "serve"
    /\ pc = "serve" =>
          /\ fetchRet.err = NoError
          /\ fetched \in SortSliceResults(fetchRet.albums)
    /\ (fetchRet.err \notin {NoError, Pending.err} /\ pc # "returned") =>
          /\ pc = "panic"
          /\ ~Served
          /\ albumList = <<>>

\* GetAllAlbums failed against a server that holds records, and main
\* panicked; and a request served after a fetch of four records.
C15_Witness ==
    /\ pc = "panic"
    /\ fetchRet.err \in {Error(k) : k \in FailureKinds}
    /\ Len(server) > 1

C15_WitnessServed ==
    /\ pc = "serve"
    /\ Served
    /\ Len(fetched) = 4

\* The standard Levenshtein distance: insertion, deletion and substitution
\* cost 1 each.
StandardLevenshtein(a, b) ==
    DistanceForStrings(a, b, [InsCost |-> 1, DelCost |-> 1, SubCost |-> 1])

\* C16: for non-empty a and b, similarity(a, b) = 1 - d / max(len(a), len(b))
\* where d is the standard Levenshtein distance; so two strings of the same
\* length n that differ in one position score 1 - 1/n.
C16_StandardLevenshteinRatio ==
    \A i \in 1..Len(ret) :
        LET a == arg[i]
            b == arg[3 - i]
            maxLen == Max(Len(a), Len(b))
        IN  (a # <<>> /\ b # <<>>) =>
                FloatEq(ret[i].result,
                        Float(maxLen - StandardLevenshtein(a, b), maxLen))

\* x is, field for field, one of the records of the list xs.
IsRecordOf(x, xs) == \E j \in 1..Len(xs) : x = xs[j]

\* C17: reconciliation never mutates a record.  Every record of albumList,
\* and every record a response renders, is field for field a record the
\* server holds and a record of the albumList before the call; and the
\* reference records handed to renderForm are the same after the call.
C17_RecordsNeverMutated ==
    /\ pc = "serve" => \A i \in 1..Len(albumList) : IsRecordOf(albumList[i], server)
    /\ last.rendered =>
          /\ \A i \in 1..Len(albumList) : IsRecordOf(albumList[i], last.before)
          /\ \A i \in 1..Len(resp.Albums) : IsRecordOf(resp.Albums[i], last.before)
          /\ last.after = last.albums

\* A reconciliation against reference records in upper and lower case that
\* kept a local record whose title differs from its normalized form.
C17_Witness ==
    /\ last.rendered
    /\ \E k \in 1..Len(last.albums) :
          last.albums[k].Name # normalize(ToLower(last.albums[k].Name))
    /\ \E i \in 1..Len(albumList) :
          albumList[i].Name # normalize(ToLower(albumList[i].Name))
    /\ Len(albumList) < Len(last.before)

\* Every page request so far was answered successfully, with the same
\* total count.
AnsweredWithSameTotal ==
    /\ reqLog # <<>>
    /\ \A i \in 1..Len(reqLog) :
          /\ reqLog[i].outcome = "ok"
          /\ reqLog[i].TotalRecordCount = reqLog[1].TotalRecordCount

\* C18: against a server that answers every page request successfully and
\* reports the same total T on every page, GetAllAlbums issues at most
\* max(1, T) page requests, whatever the number of items of each page, and
\* has returned (without an error) once that many were answered; each
\* request is issued after the answers to all earlier ones, its offset
\* being the number of items they carried.
C18_ReturnsWithinTotalRequests ==
    AnsweredWithSameTotal =>
        LET T == reqLog[1].TotalRecordCount
        IN  /\ Len(reqLog) <= Max(1, T)
            /\ Len(reqLog) = Max(1, T) =>
                  (pc = "returned" /\ fetchRet.err = NoError)
            /\ \A i \in 1..Len(reqLog) :
                  reqLog[i].query.StartIndex = Received(reqLog, i - 1)

\* Three pages of one item each against a total of 3: the third request is
\* the last; and an empty page against a total of 2.
C18_Witness ==
    /\ AnsweredWithSameTotal
    /\ reqLog[1].TotalRecordCount = 3
    /\ Len(reqLog) = 3
    /\ \A i \in 1..3 : Len(reqLog[i].Items) = 1
    /\ pc = "returned"

C18_WitnessEmptyPage ==
    /\ AnsweredWithSameTotal
    /\ reqLog[1].TotalRecordCount = 2
    /\ Len(reqLog) = 2
    /\ Len(reqLog[2].Items) = 0
    /\ pc = "returned"

C18_WitnessLargePage ==
    /\ AnsweredWithSameTotal
    /\ Len(reqLog[1].Items) > pageSize
    /\ pc = "returned"

\* C19: a reference input that fails structural validation is reported as
\* an error value; parseRymCSV never aborts the request by indexing a
\* missing column of a short data row.  So every POST the handler has
\* taken ends with a response written: none is cut off by a panic.
C19_NoRequestAbortedByParser ==
    last.method = "POST" => resp.status # 0

\* C20: while requests are handled one after another, albumList is a
\* subsequence of the sorted catalog fetched at start-up and of its own
\* value before each request: a request only removes records, so a record
\* once removed is in no later albumList; and a GET, a parse failure, a
\* request that renders nothing (another method, an unreadable upload) and
\* a reconciliation against no reference record remove nothing.
C20_AlbumListOnlyShrinks ==
    [][(pc = "serve" /\ pc' = "serve") =>
          /\ IsSubsequence(albumList', albumList)
          /\ IsSubsequence(albumList', fetched')
          /\ fetched' = fetched
          /\ last'.before = albumList
          /\ (\/ last'.method = "GET"
              \/ ~last'.rendered
              \/ resp'.Err # NoMessage
              \/ last'.albums = <<>>) => albumList' = albumList]_vars

\* A request that removed a record after an earlier request had removed
\* another; and a GET after a removal, showing the shorter list.
C20_Witness ==
    /\ pc = "serve"
    /\ last.rendered
    /\ Len(albumList) < Len(last.before)
    /\ Len(last.before) < Len(fetched)

C20_WitnessGet ==
    /\ pc = "serve"
    /\ last.method = "GET"
    /\ resp.status = 200
    /\ albumList = last.before
    /\ Len(albumList) < Len(fetched)

=============================================================================
